---- MODULE Spec2Model ----
(***************************************************************************)
(* Model of the render-and-publish stage of the Nexus pipeline:            *)
(*   - scripts/upload.py : run, authenticate_youtube, upload_video         *)
(*   - scripts/editor.py : _probe_duration, create_section_clip            *)
(* Each function is a small state machine over its local variables; the    *)
(* remote service, the file system and the transcoder are the environment  *)
(* and choose their answers nondeterministically.                          *)
(***************************************************************************)
EXTENDS Integers, Sequences, FiniteSets, TLC

VARIABLES
    \* ---- upload.py: run / upload_video
    upc,         \* position in run(): "auth","begin","chunk","sleep","thumb","ended"
    ustate,      \* UploadSession state
    retries,     \* local `retries` of upload_video
    numChunks,   \* number of 10 MB chunks of the video file
    acked,       \* chunks acknowledged so far (resumable progress of `request`)
    waits,       \* the arguments of time.sleep, in call order
    log,         \* one record per request.next_chunk() call
    lastStatus,  \* HTTP status of the last HttpError (0: none)
    response,    \* `response`: 0 is None, else the "id" the service answered
    uresult,     \* how run() ended: "running", "returned", "raised"
    returnedId,  \* the identifier returned (0: none)
    thumbCalls,  \* thumbnails().set(...).execute() calls made
    thumbRes,    \* what the thumbnail step met
    thumbKey,    \* videoId the thumbnail call was made with, 0 before it
    \* ---- editor.py: create_section_clip
    cpc,         \* position: "idle","begin","first","loop","encode","done"
    clipDur,     \* clipDur[i]: what _probe_duration answers for video_paths[i]
    target,      \* `duration`
    remaining,   \* `remaining`
    entries,     \* `entries`, as indices into video_paths
    pos,         \* position of the first-pass for loop in video_paths
    idx,         \* `idx`
    concatFile,  \* the concat list on disk: "absent", "written", "removed"
    transcodes,  \* ffmpeg runs started
    outDur,      \* duration of the encoded output (-1: no output)
    cresult,     \* "running", "returned", "raised"
    changed,     \* a file became unreadable while the call was running
    \* ---- editor.py: assemble_video
    apc,         \* position: "idle","begin","intro","outro","concat","mux","done"
    secClips,    \* `section_clips`, as the durations of the clip files
    finalFile,   \* FINAL_VIDEO on disk: "absent","stale","partial","complete"
    introFile,   \* _intro.mp4: "absent" or "present"
    outroFile,   \* _outro.mp4
    finalConcat, \* _final_concat.txt
    videoOnly,   \* _video_only.mp4
    ctaIn,       \* len(script["cta"]), -1 when the key is absent, -2 not read yet
    outroCaption,\* the text handed to the outro slate
    timeline,    \* `all_clips`
    timelineDur, \* duration of _video_only.mp4 (-1: not made)
    audioDur,    \* duration of the audio track (-1: not read yet)
    finalDur,    \* duration of the final video (-1: not made)
    aruns,       \* ffmpeg runs started by assemble_video
    aresult,     \* "running", "returned", "raised"
    \* ---- editor.py: run
    rpc,         \* position: "idle","begin","sections","thumb","done"
    footage,     \* footage[i]: visuals_map has paths for section i
    sidx,        \* the section the for loop is at
    clipsMade,   \* len(section_clips)
    rruns,       \* ffmpeg runs started during run()
    rresult,     \* "running", "returned", "raised"
    rwhy,        \* what raised: "none","noclips","clip","assemble","thumbnail"
    rAudio,      \* how long the voiceover file lasts, in seconds
    probeOk,     \* whether ffprobe can read the voiceover file
    audio_dur,   \* `audio_dur`
    num_sections,\* `num_sections`
    content_dur, \* `content_dur`; per_section is content_dur / num_sections
    rTimelineN,  \* num_sections times the timeline's duration, -1 before it
    rFinalN,     \* num_sections times the final video's duration, -1 before
    \* ---- editor.py: generate_thumbnail
    tpc,         \* position: "idle","title","wrap","done"
    topic,       \* script["selected_topic"]: "absent", "empty" or "text"
    firstSection,\* sections[0]: "none", or its title: "nokey","empty","text"
    titleSrc,    \* where `title` came from: "topic","section","default"
    words,       \* `words`, each word as its length
    wpos,        \* the word the for loop is at
    lines,       \* `lines`, each line as the words on it
    current,     \* `current_line`, as the words on it
    \* ---- upload.py: upload_video, the metadata block
    mpc,         \* position: "idle","title","sections","audience","dedupe","done"
    secTitles,   \* the sections' titles in script order, 0 is the empty string
    audience,    \* script["target_audience"], 0 is the empty string
    rawTitle,    \* length of the title chosen from the script
    mtitle,      \* length of `title` sent to the service
    mi,          \* the section the for loop is at
    rawTags,     \* `tags` as appended, before the dedupe
    tags,        \* `tags` sent to the service
    \* ---- upload.py: authenticate_youtube
    ypc,         \* position: "idle","begin","load","check","flow","persist",
                 \* "build","done"
    secretFile,  \* whether the client secret file exists
    credFile,    \* CREDENTIALS_PATH: absent, unreadable or saved credentials
    creds,       \* `creds`
    credsFrom,   \* where `creds` came from: "none","file","refresh","flow"
    persisted,   \* the credentials written to CREDENTIALS_PATH by this call
    service,     \* the credentials the service object was built with
    yresult      \* "running", "returned" or "raised"

uvars == <<upc, ustate, retries, numChunks, acked, waits, log, lastStatus,
           response, uresult, returnedId, thumbCalls, thumbRes, thumbKey>>
cvars == <<cpc, clipDur, target, remaining, entries, pos, idx, concatFile,
           transcodes, outDur, cresult, changed>>
avars == <<apc, secClips, finalFile, introFile, outroFile, finalConcat,
           videoOnly, ctaIn, outroCaption, timeline, timelineDur, audioDur,
           finalDur, aruns, aresult>>
rvars == <<rpc, footage, sidx, clipsMade, rruns, rresult, rwhy, rAudio,
           probeOk, audio_dur, num_sections, content_dur, rTimelineN, rFinalN>>
tvars == <<tpc, topic, firstSection, titleSrc, words, wpos, lines, current>>
mvars == <<mpc, secTitles, audience, rawTitle, mtitle, mi, rawTags, tags>>
kvars == <<ypc, secretFile, credFile, creds, credsFrom, persisted, service,
           yresult>>
vars == <<uvars, cvars, avars, rvars, tvars, mvars, kvars>>

\* what a function leaves alone: the variables of the other functions
notUpload == <<cvars, avars, rvars, tvars, mvars, kvars>>
notClip == <<uvars, avars, rvars, tvars, mvars, kvars>>
notAssemble == <<uvars, cvars, rvars, tvars, mvars, kvars>>
notRun == <<uvars, cvars, avars, tvars, mvars, kvars>>
notThumb == <<uvars, cvars, avars, rvars, mvars, kvars>>
notMeta == <<uvars, cvars, avars, rvars, tvars, kvars>>
notAuth == <<uvars, cvars, avars, rvars, tvars, mvars>>

----------------------------------------------------------------------------
\* Bounds of the model

MaxChunks == 6
MaxClips == 3
MaxClipDur == 4
MaxTarget == 10
MaxEntries == 12
MaxSecClips == 3
MaxSecDur == 3
MaxAudio == 17
CtaSlack == 2
MaxSections == 4
MaxWords == 4
MaxMetaSections == 32
MaxTitleLen == 102
MaxRunAudio == 30

----------------------------------------------------------------------------
\* upload.py: constants and helpers

\* `creds = None`
NoCreds ==
    [some |-> FALSE, token |-> FALSE, valid |-> FALSE, expired |-> FALSE,
     refresh_token |-> FALSE]

\* a Credentials object: valid means a token that is not expired
CredObjects ==
    {c \in [some : {TRUE}, token : BOOLEAN, valid : BOOLEAN,
            expired : BOOLEAN, refresh_token : BOOLEAN] :
        c.valid <=> (c.token /\ ~c.expired)}

\* CREDENTIALS_PATH: no file, a file that cannot be loaded, saved credentials
AbsentFile == [kind |-> "absent", c |-> NoCreds]
SavedFiles ==
    {AbsentFile, [kind |-> "unreadable", c |-> NoCreds]}
    \cup {[kind |-> "saved", c |-> c] : c \in CredObjects}

MAX_RETRIES == 5
RETRY_BACKOFF == 2

\* HTTP statuses the service may answer an upload request with
Statuses == {400, 403, 500, 501, 502, 503, 504}
VideoIds == {11, 12}

CanRetryTwoMore(r) == r < MAX_RETRIES + 2
CanRetryOffByOne(r) == r <= MAX_RETRIES
\* `retries < MAX_RETRIES`
CanRetry(r) == r < MAX_RETRIES

RetryableAny5xx(s) == s >= 500
\* `exc.resp.status in (500, 502, 503, 504)`
IsRetryableStatus(s) == s \in {500, 502, 503, 504}

BackoffLinear(n) == RETRY_BACKOFF * n
\* `wait = RETRY_BACKOFF ** retries`
Backoff(n) == RETRY_BACKOFF ^ n

ProgressRestart(a) == 0
\* the except branches keep `request` and `media`: the resumable progress
\* of the request is what it was before the failed call
ProgressAfterFailure(a) == a

RetriesResetOnAck(r) == 0
\* no statement of the loop touches `retries` when next_chunk() returns
RetriesAfterAck(r) == r

StateRestartOnRetry == "AUTHENTICATED"
\* the session state while upload_video sleeps in time.sleep(wait)
StateWhileSleeping == "RETRY_WAIT"

RECURSIVE CountRes(_, _)
CountRes(l, kinds) ==
    IF l = <<>> THEN 0
    ELSE (IF Head(l).res \in kinds THEN 1 ELSE 0) + CountRes(Tail(l), kinds)

Transient == {"http5xx", "exc"}
NumTransient == CountRes(log, Transient)
NumFatal == CountRes(log, {"httpfatal"})
NumAcks == CountRes(log, {"ack"})

LogKind(s) == IF s \in {500, 502, 503, 504} THEN "http5xx" ELSE "httpfatal"

----------------------------------------------------------------------------
\* upload.py: run() and upload_video()

UploadInit ==
    /\ upc = "auth"
    /\ ustate = "INIT"
    /\ retries = 0
    /\ numChunks \in 1..MaxChunks
    /\ acked = 0
    /\ waits = <<>>
    /\ log = <<>>
    /\ lastStatus = 0
    /\ response = 0
    /\ uresult = "running"
    /\ returnedId = 0
    /\ thumbCalls = 0
    /\ thumbRes = "none"
    /\ thumbKey = 0
    \* create_section_clip is not running
    /\ cpc = "idle"
    /\ clipDur = <<>>
    /\ target = 1
    /\ remaining = 0
    /\ entries = <<>>
    /\ pos = 1
    /\ idx = 0
    /\ concatFile = "absent"
    /\ transcodes = 0
    /\ outDur = -1
    /\ cresult = "running"
    /\ changed = FALSE
    \* assemble_video is not running
    /\ apc = "idle"
    /\ secClips = <<>>
    /\ finalFile = "absent"
    /\ introFile = "absent"
    /\ outroFile = "absent"
    /\ finalConcat = "absent"
    /\ videoOnly = "absent"
    /\ ctaIn = -2
    /\ outroCaption = [text |-> "", len |-> 0]
    /\ timeline = <<>>
    /\ timelineDur = -1
    /\ audioDur = -1
    /\ finalDur = -1
    /\ aruns = 0
    /\ aresult = "running"
    \* run() of editor.py is not running
    /\ rpc = "idle"
    /\ footage = <<>>
    /\ sidx = 1
    /\ clipsMade = 0
    /\ rruns = 0
    /\ rresult = "running"
    /\ rwhy = "none"
    /\ rAudio = 1
    /\ probeOk = TRUE
    /\ audio_dur = 0
    /\ num_sections = 1
    /\ content_dur = 0
    /\ rTimelineN = -1
    /\ rFinalN = -1
    \* generate_thumbnail is not running
    /\ tpc = "idle"
    /\ topic = "absent"
    /\ firstSection = "none"
    /\ titleSrc = "none"
    /\ words = <<>>
    /\ wpos = 1
    /\ lines = <<>>
    /\ current = <<>>
    \* the upload metadata is not being built
    /\ mpc = "idle"
    /\ secTitles = <<>>
    /\ audience = 0
    /\ rawTitle = 0
    /\ mtitle = 0
    /\ mi = 1
    /\ rawTags = <<>>
    /\ tags = <<>>
    \* authenticate_youtube is not running
    /\ ypc = "idle"
    /\ secretFile = TRUE
    /\ credFile = AbsentFile
    /\ creds = NoCreds
    /\ credsFrom = "none"
    /\ persisted = NoCreds
    /\ service = NoCreds
    /\ yresult = "running"

RaiseSwallowed ==
    /\ upc' = "thumb"
    /\ ustate' = "FAILED"
    /\ uresult' = "raised"
\* raise ... : the exception leaves upload_video and run
Raise ==
    /\ upc' = "ended"
    /\ ustate' = "FAILED"
    /\ uresult' = "raised"

\* run(): youtube = authenticate_youtube()
authenticate_youtube ==
    /\ upc = "auth"
    /\ \E ok \in BOOLEAN :
         IF ok
         THEN /\ upc' = "begin"
              /\ ustate' = "AUTHENTICATED"
              /\ UNCHANGED uresult
         ELSE Raise
    /\ UNCHANGED <<retries, numChunks, acked, waits, log, lastStatus, response,
                   returnedId, thumbCalls, thumbRes, thumbKey>>
    /\ UNCHANGED notUpload

\* upload_video up to the loop: the file check, the metadata, the request
upload_video_begin ==
    /\ upc = "begin"
    /\ \E isfile \in BOOLEAN :
         IF isfile
         THEN /\ upc' = "chunk"
              /\ ustate' = "UPLOADING"
              /\ retries' = 0
              /\ response' = 0
              /\ UNCHANGED uresult
         ELSE /\ Raise
              /\ UNCHANGED <<retries, response>>
    /\ UNCHANGED <<numChunks, acked, waits, log, lastStatus, returnedId,
                   thumbCalls, thumbRes, thumbKey>>
    /\ UNCHANGED notUpload

\* the except branches that retry: retries += 1; wait = ...; time.sleep(wait)
RetryBranch(kind) ==
    /\ retries' = retries + 1
    /\ waits' = Append(waits, Backoff(retries + 1))
    /\ acked' = ProgressAfterFailure(acked)
    /\ log' = Append(log, [chunk |-> acked + 1, res |-> kind])
    /\ upc' = "sleep"
    /\ ustate' = StateWhileSleeping
    /\ UNCHANGED <<response, uresult>>

\* the except branches that give up: raise RuntimeError(...) from exc
GiveUpBranch(kind) ==
    /\ log' = Append(log, [chunk |-> acked + 1, res |-> kind])
    /\ Raise
    /\ UNCHANGED <<retries, waits, acked, response>>

\* one turn of `while response is None`: request.next_chunk() and its handlers
next_chunk_ack ==
    /\ upc = "chunk"
    /\ lastStatus' = 0
    /\ log' = Append(log, [chunk |-> acked + 1, res |-> "ack"])
    /\ acked' = acked + 1
    /\ IF acked + 1 = numChunks
       THEN /\ \E id \in VideoIds : response' = id
            /\ upc' = "thumb"
            /\ ustate' = "COMPLETE"
       ELSE /\ UNCHANGED <<response, upc, ustate>>
    /\ retries' = RetriesAfterAck(retries)
    /\ UNCHANGED <<numChunks, waits, uresult, returnedId, thumbCalls,
                   thumbRes, thumbKey>>
    /\ UNCHANGED notUpload

next_chunk_HttpError ==
    /\ upc = "chunk"
    /\ \E s \in Statuses :
         /\ lastStatus' = s
         /\ IF IsRetryableStatus(s) /\ CanRetry(retries)
            THEN RetryBranch(LogKind(s))
            ELSE GiveUpBranch(LogKind(s))
    /\ UNCHANGED <<numChunks, returnedId, thumbCalls, thumbRes, thumbKey>>
    /\ UNCHANGED notUpload

next_chunk_Exception ==
    /\ upc = "chunk"
    /\ lastStatus' = 0
    /\ IF CanRetry(retries)
       THEN RetryBranch("exc")
       ELSE GiveUpBranch("exc")
    /\ UNCHANGED <<numChunks, returnedId, thumbCalls, thumbRes, thumbKey>>
    /\ UNCHANGED notUpload

\* time.sleep(wait) returns; the loop tests `response is None` again
sleep_done ==
    /\ upc = "sleep"
    /\ upc' = "chunk"
    /\ ustate' = "UPLOADING"
    /\ UNCHANGED <<retries, numChunks, acked, waits, log, lastStatus, response,
                   uresult, returnedId, thumbCalls, thumbRes, thumbKey>>
    /\ UNCHANGED notUpload

\* video_id = response["id"]; the thumbnail step; return video_id
ThumbOutcomes == {"skipped", "ok", "HttpError", "Exception"}

set_thumbnail ==
    /\ upc = "thumb"
    /\ \E t \in ThumbOutcomes :
         /\ thumbRes' = t
         /\ thumbCalls' = IF t = "skipped" THEN thumbCalls ELSE thumbCalls + 1
         /\ thumbKey' = IF t = "skipped" THEN thumbKey ELSE response
         /\ IF t = "Exception"
            THEN /\ uresult' = "raised"
                 /\ UNCHANGED returnedId
            ELSE /\ uresult' = "returned"
                 /\ returnedId' = response
    /\ upc' = "ended"
    /\ UNCHANGED <<ustate, retries, numChunks, acked, waits, log, lastStatus,
                   response>>
    /\ UNCHANGED notUpload

UploadNext ==
    \/ authenticate_youtube
    \/ upload_video_begin
    \/ next_chunk_ack
    \/ next_chunk_HttpError
    \/ next_chunk_Exception
    \/ sleep_done
    \/ set_thumbnail

----------------------------------------------------------------------------
\* editor.py: _probe_duration and create_section_clip

\* a file of video_paths: -1 when ffmpeg.probe raises on it, else its duration
FileStates == -1..MaxClipDur

\* _probe_duration: float(info["format"]["duration"]), 0.0 on any exception
_probe_duration(i) == IF clipDur[i] < 0 THEN 0 ELSE clipDur[i]

Min(a, b) == IF a <= b THEN a ELSE b

RECURSIVE SumProbed(_)
SumProbed(e) ==
    IF e = <<>> THEN 0 ELSE _probe_duration(Head(e)) + SumProbed(Tail(e))

LoopOnce(rem, e) == rem > 0 /\ e # <<>> /\ idx = 0
\* `while remaining > 0 and entries`
LoopCond(rem, e) == rem > 0 /\ e # <<>>

BreakNever(rem) == FALSE
\* `if remaining <= 0: break`
Break(rem) == rem <= 0

LoopPickLast(e, i) == e[Len(e)]
\* `entries[idx % len(entries)]`
LoopPick(e, i) == e[(i % Len(e)) + 1]

\* what ffmpeg writes for `t=duration` over the concat list: the footage,
\* cut at `duration`
Encoded(e, d) == Min(d, SumProbed(e))

NeverEmpty(l) == FALSE
\* `if not video_paths` / `if not section_clips`
NoPaths(l) == l = <<>>

ClipInit ==
    /\ cpc = "begin"
    /\ \E n \in 0..MaxClips : clipDur \in [1..n -> FileStates]
    /\ target \in 1..MaxTarget
    /\ remaining = 0
    /\ entries = <<>>
    /\ pos = 1
    /\ idx = 0
    /\ concatFile = "absent"
    /\ transcodes = 0
    /\ outDur = -1
    /\ cresult = "running"
    /\ changed = FALSE
    \* run() of upload.py is not running
    /\ upc = "ended"
    /\ ustate = "INIT"
    /\ retries = 0
    /\ numChunks = 1
    /\ acked = 0
    /\ waits = <<>>
    /\ log = <<>>
    /\ lastStatus = 0
    /\ response = 0
    /\ uresult = "running"
    /\ returnedId = 0
    /\ thumbCalls = 0
    /\ thumbRes = "none"
    /\ thumbKey = 0
    \* assemble_video is not running
    /\ apc = "idle"
    /\ secClips = <<>>
    /\ finalFile = "absent"
    /\ introFile = "absent"
    /\ outroFile = "absent"
    /\ finalConcat = "absent"
    /\ videoOnly = "absent"
    /\ ctaIn = -2
    /\ outroCaption = [text |-> "", len |-> 0]
    /\ timeline = <<>>
    /\ timelineDur = -1
    /\ audioDur = -1
    /\ finalDur = -1
    /\ aruns = 0
    /\ aresult = "running"
    \* run() of editor.py is not running
    /\ rpc = "idle"
    /\ footage = <<>>
    /\ sidx = 1
    /\ clipsMade = 0
    /\ rruns = 0
    /\ rresult = "running"
    /\ rwhy = "none"
    /\ rAudio = 1
    /\ probeOk = TRUE
    /\ audio_dur = 0
    /\ num_sections = 1
    /\ content_dur = 0
    /\ rTimelineN = -1
    /\ rFinalN = -1
    \* generate_thumbnail is not running
    /\ tpc = "idle"
    /\ topic = "absent"
    /\ firstSection = "none"
    /\ titleSrc = "none"
    /\ words = <<>>
    /\ wpos = 1
    /\ lines = <<>>
    /\ current = <<>>
    \* the upload metadata is not being built
    /\ mpc = "idle"
    /\ secTitles = <<>>
    /\ audience = 0
    /\ rawTitle = 0
    /\ mtitle = 0
    /\ mi = 1
    /\ rawTags = <<>>
    /\ tags = <<>>
    \* authenticate_youtube is not running
    /\ ypc = "idle"
    /\ secretFile = TRUE
    /\ credFile = AbsentFile
    /\ creds = NoCreds
    /\ credsFrom = "none"
    /\ persisted = NoCreds
    /\ service = NoCreds
    /\ yresult = "running"

\* `if not video_paths: raise ValueError`; remaining = duration; entries = []
clip_begin ==
    /\ cpc = "begin"
    /\ IF NoPaths(clipDur)
       THEN /\ cpc' = "done"
            /\ cresult' = "raised"
            /\ UNCHANGED <<remaining, entries, pos>>
       ELSE /\ cpc' = "first"
            /\ remaining' = target
            /\ entries' = <<>>
            /\ pos' = 1
            /\ UNCHANGED cresult
    /\ UNCHANGED <<clipDur, target, idx, concatFile, transcodes, outDur, changed>>
    /\ UNCHANGED notClip

\* one turn of `for vpath in video_paths`
first_pass ==
    /\ cpc = "first"
    /\ IF pos > Len(clipDur) \/ Break(remaining)
       THEN /\ cpc' = "loop"
            /\ idx' = 0
            /\ UNCHANGED <<remaining, entries, pos>>
       ELSE /\ IF _probe_duration(pos) <= 0
               THEN UNCHANGED <<remaining, entries>>
               ELSE /\ entries' = Append(entries, pos)
                    /\ remaining' = remaining - _probe_duration(pos)
            /\ pos' = pos + 1
            /\ UNCHANGED <<cpc, idx>>
    /\ UNCHANGED <<clipDur, target, concatFile, transcodes, outDur, cresult,
                   changed>>
    /\ UNCHANGED notClip

\* one turn of `while remaining > 0 and entries`
loop_turn ==
    /\ cpc = "loop"
    /\ LoopCond(remaining, entries)
    /\ Len(entries) < MaxEntries
    /\ LET e2 == Append(entries, LoopPick(entries, idx))
       IN  /\ entries' = e2
           /\ remaining' = remaining - _probe_duration(LoopPick(e2, idx))
    /\ idx' = idx + 1
    /\ UNCHANGED <<cpc, clipDur, target, pos, concatFile, transcodes, outDur,
                   cresult, changed>>
    /\ UNCHANGED notClip

\* the loop ends; the concat list is written
write_concat ==
    /\ cpc = "loop"
    /\ ~LoopCond(remaining, entries)
    /\ cpc' = "encode"
    /\ concatFile' = "written"
    /\ UNCHANGED <<clipDur, target, remaining, entries, pos, idx, transcodes,
                   outDur, cresult, changed>>
    /\ UNCHANGED notClip

\* ffmpeg ... .run(quiet=True), the except and the finally
encode ==
    /\ cpc = "encode"
    /\ transcodes' = transcodes + 1
    /\ \E ok \in BOOLEAN :
         IF ok
         THEN /\ outDur' = Encoded(entries, target)
              /\ cresult' = "returned"
         ELSE /\ cresult' = "raised"
              /\ UNCHANGED outDur
    /\ concatFile' = "removed"
    /\ cpc' = "done"
    /\ UNCHANGED <<clipDur, target, remaining, entries, pos, idx, changed>>
    /\ UNCHANGED notClip

\* environment: a raw clip becomes unreadable while the call is running
file_unreadable ==
    /\ cpc \in {"first", "loop"}
    /\ ~changed
    /\ \E i \in DOMAIN clipDur :
         /\ clipDur[i] >= 0
         /\ clipDur' = [clipDur EXCEPT ![i] = -1]
    /\ changed' = TRUE
    /\ UNCHANGED <<cpc, target, remaining, entries, pos, idx, concatFile,
                   transcodes, outDur, cresult>>
    /\ UNCHANGED notClip

\* the steps of create_section_clip itself
ClipStep ==
    \/ clip_begin
    \/ first_pass
    \/ loop_turn
    \/ write_concat
    \/ encode

ClipNext ==
    \/ clip_begin
    \/ first_pass
    \/ loop_turn
    \/ write_concat
    \/ encode
    \/ file_unreadable

----------------------------------------------------------------------------
\* editor.py: _create_slate and assemble_video

INTRO_DUR == 2
OUTRO_DUR == 5
CTA_MAX == 60
FALLBACK_LEN == 19

\* the values of script.get("cta", ...) tried: no key (-1), "", and lengths
\* around the bound
CtaValues == {-1, 0} \cup ((CTA_MAX - CtaSlack)..(CTA_MAX + CtaSlack))

Fallback == [text |-> "Subscribe for more!", len |-> FALLBACK_LEN]

OutroCaptionAtBound(c) ==
    IF c = -1 \/ c >= CTA_MAX THEN Fallback ELSE [text |-> "cta", len |-> c]
\* cta_text = script.get("cta", "Subscribe for more!");
\* if len(cta_text) > 60: cta_text = "Subscribe for more!"
OutroCaption(c) ==
    IF c = -1 \/ c > CTA_MAX THEN Fallback ELSE [text |-> "cta", len |-> c]

AllClipsNoOutro(clips) ==
    <<[kind |-> "intro", i |-> 0, dur |-> INTRO_DUR]>>
    \o [k \in 1..Len(clips) |-> [kind |-> "section", i |-> k, dur |-> clips[k]]]
\* all_clips = [intro_path] + list(section_clips) + [outro_path]
AllClips(clips) ==
    <<[kind |-> "intro", i |-> 0, dur |-> INTRO_DUR]>>
    \o [k \in 1..Len(clips) |-> [kind |-> "section", i |-> k, dur |-> clips[k]]]
    \o <<[kind |-> "outro", i |-> 0, dur |-> OUTRO_DUR]>>

RECURSIVE SumDur(_)
\* the duration of the file the concat demuxer builds from a list of clips
SumDur(t) == IF t = <<>> THEN 0 ELSE Head(t).dur + SumDur(Tail(t))

MuxLongest(v, a) == IF v >= a THEN v ELSE a
\* ffmpeg.output(video, audio, FINAL_VIDEO, vcodec="copy", acodec="aac",
\* shortest=None): the output ends with the shorter stream
Mux(v, a) == Min(v, a)

CleanupKeepsVideoOnly == {"intro", "outro", "concat"}
\* for tmp in (intro_path, outro_path, concat_path, video_only): os.remove
CleanupSet == {"intro", "outro", "concat", "video_only"}

Removed(name, f) == IF name \in CleanupSet THEN "absent" ELSE f

\* raise RuntimeError(...) out of assemble_video
ARaise ==
    /\ apc' = "done"
    /\ aresult' = "raised"

\* `if not section_clips: raise ValueError`; os.makedirs(FINAL_DIR)
assemble_begin ==
    /\ apc = "begin"
    /\ IF NoPaths(secClips)
       THEN ARaise
       ELSE /\ apc' = "intro"
            /\ UNCHANGED aresult
    /\ UNCHANGED <<secClips, finalFile, introFile, outroFile, finalConcat,
                   videoOnly, ctaIn, outroCaption, timeline, timelineDur,
                   audioDur, finalDur, aruns>>
    /\ UNCHANGED notAssemble

\* _create_slate(CHANNEL_NAME, 2.0, intro_path)
slate_intro ==
    /\ apc = "intro"
    /\ aruns' = aruns + 1
    /\ \E ok \in BOOLEAN :
         IF ok
         THEN /\ introFile' = "present"
              /\ apc' = "outro"
              /\ UNCHANGED aresult
         ELSE /\ introFile' \in {"absent", "present"}
              /\ ARaise
    /\ UNCHANGED <<secClips, finalFile, outroFile, finalConcat, videoOnly,
                   ctaIn, outroCaption, timeline, timelineDur, audioDur,
                   finalDur>>
    /\ UNCHANGED notAssemble

\* the outro caption and _create_slate(cta_text, 5.0, outro_path)
slate_outro ==
    /\ apc = "outro"
    /\ aruns' = aruns + 1
    /\ \E c \in CtaValues :
         /\ ctaIn' = c
         /\ outroCaption' = OutroCaption(c)
    /\ \E ok \in BOOLEAN :
         IF ok
         THEN /\ outroFile' = "present"
              /\ apc' = "concat"
              /\ UNCHANGED aresult
         ELSE /\ outroFile' \in {"absent", "present"}
              /\ ARaise
    /\ UNCHANGED <<secClips, finalFile, introFile, finalConcat, videoOnly,
                   timeline, timelineDur, audioDur, finalDur>>
    /\ UNCHANGED notAssemble

\* all_clips, the concat list, and the concat run into _video_only.mp4
concat_clips ==
    /\ apc = "concat"
    /\ timeline' = AllClips(secClips)
    /\ finalConcat' = "present"
    /\ aruns' = aruns + 1
    /\ \E ok \in BOOLEAN :
         IF ok
         THEN /\ videoOnly' = "present"
              /\ timelineDur' = SumDur(AllClips(secClips))
              /\ apc' = "mux"
              /\ UNCHANGED aresult
         ELSE /\ videoOnly' \in {"absent", "present"}
              /\ UNCHANGED timelineDur
              /\ ARaise
    /\ UNCHANGED <<secClips, finalFile, introFile, outroFile, ctaIn,
                   outroCaption, audioDur, finalDur>>
    /\ UNCHANGED notAssemble

\* the mux run into FINAL_VIDEO, the clean-up loop and the return
mux_audio ==
    /\ apc = "mux"
    /\ aruns' = aruns + 1
    /\ \E a \in 1..MaxAudio : audioDur' = a
    /\ \E ok \in BOOLEAN :
         IF ok
         THEN /\ finalFile' = "complete"
              /\ finalDur' = Mux(timelineDur, audioDur')
              /\ introFile' = Removed("intro", introFile)
              /\ outroFile' = Removed("outro", outroFile)
              /\ finalConcat' = Removed("concat", finalConcat)
              /\ videoOnly' = Removed("video_only", videoOnly)
              /\ apc' = "done"
              /\ aresult' = "returned"
         ELSE /\ finalFile' \in {finalFile, "partial"}
              /\ UNCHANGED <<finalDur, introFile, outroFile, finalConcat,
                             videoOnly>>
              /\ ARaise
    /\ UNCHANGED <<secClips, ctaIn, outroCaption, timeline, timelineDur>>
    /\ UNCHANGED notAssemble

AssembleInit ==
    /\ apc = "begin"
    /\ \E n \in 0..MaxSecClips : secClips \in [1..n -> 1..MaxSecDur]
    /\ finalFile \in {"absent", "stale"}
    /\ introFile = "absent"
    /\ outroFile = "absent"
    /\ finalConcat = "absent"
    /\ videoOnly = "absent"
    /\ ctaIn = -2
    /\ outroCaption = [text |-> "", len |-> 0]
    /\ timeline = <<>>
    /\ timelineDur = -1
    /\ audioDur = -1
    /\ finalDur = -1
    /\ aruns = 0
    /\ aresult = "running"
    \* run() of upload.py is not running
    /\ upc = "ended"
    /\ ustate = "INIT"
    /\ retries = 0
    /\ numChunks = 1
    /\ acked = 0
    /\ waits = <<>>
    /\ log = <<>>
    /\ lastStatus = 0
    /\ response = 0
    /\ uresult = "running"
    /\ returnedId = 0
    /\ thumbCalls = 0
    /\ thumbRes = "none"
    /\ thumbKey = 0
    \* create_section_clip is not running
    /\ cpc = "idle"
    /\ clipDur = <<>>
    /\ target = 1
    /\ remaining = 0
    /\ entries = <<>>
    /\ pos = 1
    /\ idx = 0
    /\ concatFile = "absent"
    /\ transcodes = 0
    /\ outDur = -1
    /\ cresult = "running"
    /\ changed = FALSE
    \* run() of editor.py is not running
    /\ rpc = "idle"
    /\ footage = <<>>
    /\ sidx = 1
    /\ clipsMade = 0
    /\ rruns = 0
    /\ rresult = "running"
    /\ rwhy = "none"
    /\ rAudio = 1
    /\ probeOk = TRUE
    /\ audio_dur = 0
    /\ num_sections = 1
    /\ content_dur = 0
    /\ rTimelineN = -1
    /\ rFinalN = -1
    \* generate_thumbnail is not running
    /\ tpc = "idle"
    /\ topic = "absent"
    /\ firstSection = "none"
    /\ titleSrc = "none"
    /\ words = <<>>
    /\ wpos = 1
    /\ lines = <<>>
    /\ current = <<>>
    \* the upload metadata is not being built
    /\ mpc = "idle"
    /\ secTitles = <<>>
    /\ audience = 0
    /\ rawTitle = 0
    /\ mtitle = 0
    /\ mi = 1
    /\ rawTags = <<>>
    /\ tags = <<>>
    \* authenticate_youtube is not running
    /\ ypc = "idle"
    /\ secretFile = TRUE
    /\ credFile = AbsentFile
    /\ creds = NoCreds
    /\ credsFrom = "none"
    /\ persisted = NoCreds
    /\ service = NoCreds
    /\ yresult = "running"

\* either function of editor.py, called on its own
EditorInit ==
    \/ /\ cpc = "begin"
       /\ \E n \in 0..MaxClips : clipDur \in [1..n -> FileStates]
       /\ target \in 1..MaxTarget
       /\ remaining = 0
       /\ entries = <<>>
       /\ pos = 1
       /\ idx = 0
       /\ concatFile = "absent"
       /\ transcodes = 0
       /\ outDur = -1
       /\ cresult = "running"
       /\ changed = FALSE
       \* run() of upload.py is not running
       /\ upc = "ended"
       /\ ustate = "INIT"
       /\ retries = 0
       /\ numChunks = 1
       /\ acked = 0
       /\ waits = <<>>
       /\ log = <<>>
       /\ lastStatus = 0
       /\ response = 0
       /\ uresult = "running"
       /\ returnedId = 0
       /\ thumbCalls = 0
       /\ thumbRes = "none"
       /\ thumbKey = 0
       \* assemble_video is not running
       /\ apc = "idle"
       /\ secClips = <<>>
       /\ finalFile = "absent"
       /\ introFile = "absent"
       /\ outroFile = "absent"
       /\ finalConcat = "absent"
       /\ videoOnly = "absent"
       /\ ctaIn = -2
       /\ outroCaption = [text |-> "", len |-> 0]
       /\ timeline = <<>>
       /\ timelineDur = -1
       /\ audioDur = -1
       /\ finalDur = -1
       /\ aruns = 0
       /\ aresult = "running"
       \* run() of editor.py is not running
       /\ rpc = "idle"
       /\ footage = <<>>
       /\ sidx = 1
       /\ clipsMade = 0
       /\ rruns = 0
       /\ rresult = "running"
       /\ rwhy = "none"
       /\ rAudio = 1
       /\ probeOk = TRUE
       /\ audio_dur = 0
       /\ num_sections = 1
       /\ content_dur = 0
       /\ rTimelineN = -1
       /\ rFinalN = -1
       \* generate_thumbnail is not running
       /\ tpc = "idle"
       /\ topic = "absent"
       /\ firstSection = "none"
       /\ titleSrc = "none"
       /\ words = <<>>
       /\ wpos = 1
       /\ lines = <<>>
       /\ current = <<>>
       \* the upload metadata is not being built
       /\ mpc = "idle"
       /\ secTitles = <<>>
       /\ audience = 0
       /\ rawTitle = 0
       /\ mtitle = 0
       /\ mi = 1
       /\ rawTags = <<>>
       /\ tags = <<>>
       \* authenticate_youtube is not running
       /\ ypc = "idle"
       /\ secretFile = TRUE
       /\ credFile = AbsentFile
       /\ creds = NoCreds
       /\ credsFrom = "none"
       /\ persisted = NoCreds
       /\ service = NoCreds
       /\ yresult = "running"
    \/ /\ apc = "begin"
       /\ \E n \in 0..MaxSecClips : secClips \in [1..n -> 1..MaxSecDur]
       /\ finalFile \in {"absent", "stale"}
       /\ introFile = "absent"
       /\ outroFile = "absent"
       /\ finalConcat = "absent"
       /\ videoOnly = "absent"
       /\ ctaIn = -2
       /\ outroCaption = [text |-> "", len |-> 0]
       /\ timeline = <<>>
       /\ timelineDur = -1
       /\ audioDur = -1
       /\ finalDur = -1
       /\ aruns = 0
       /\ aresult = "running"
       \* run() of upload.py is not running
       /\ upc = "ended"
       /\ ustate = "INIT"
       /\ retries = 0
       /\ numChunks = 1
       /\ acked = 0
       /\ waits = <<>>
       /\ log = <<>>
       /\ lastStatus = 0
       /\ response = 0
       /\ uresult = "running"
       /\ returnedId = 0
       /\ thumbCalls = 0
       /\ thumbRes = "none"
       /\ thumbKey = 0
       \* create_section_clip is not running
       /\ cpc = "idle"
       /\ clipDur = <<>>
       /\ target = 1
       /\ remaining = 0
       /\ entries = <<>>
       /\ pos = 1
       /\ idx = 0
       /\ concatFile = "absent"
       /\ transcodes = 0
       /\ outDur = -1
       /\ cresult = "running"
       /\ changed = FALSE
       \* run() of editor.py is not running
       /\ rpc = "idle"
       /\ footage = <<>>
       /\ sidx = 1
       /\ clipsMade = 0
       /\ rruns = 0
       /\ rresult = "running"
       /\ rwhy = "none"
       /\ rAudio = 1
       /\ probeOk = TRUE
       /\ audio_dur = 0
       /\ num_sections = 1
       /\ content_dur = 0
       /\ rTimelineN = -1
       /\ rFinalN = -1
       \* generate_thumbnail is not running
       /\ tpc = "idle"
       /\ topic = "absent"
       /\ firstSection = "none"
       /\ titleSrc = "none"
       /\ words = <<>>
       /\ wpos = 1
       /\ lines = <<>>
       /\ current = <<>>
       \* the upload metadata is not being built
       /\ mpc = "idle"
       /\ secTitles = <<>>
       /\ audience = 0
       /\ rawTitle = 0
       /\ mtitle = 0
       /\ mi = 1
       /\ rawTags = <<>>
       /\ tags = <<>>
       \* authenticate_youtube is not running
       /\ ypc = "idle"
       /\ secretFile = TRUE
       /\ credFile = AbsentFile
       /\ creds = NoCreds
       /\ credsFrom = "none"
       /\ persisted = NoCreds
       /\ service = NoCreds
       /\ yresult = "running"

AssembleNext ==
    \/ assemble_begin
    \/ slate_intro
    \/ slate_outro
    \/ concat_clips
    \/ mux_audio

----------------------------------------------------------------------------
\* editor.py: run()

NoSectionClipsNever(n) == FALSE
\* `if not section_clips`
NoSectionClips(n) == n = 0

\* an exception leaves run()
RRaise(why) ==
    /\ rpc' = "done"
    /\ rresult' = "raised"
    /\ rwhy' = why

SECTION_MIN == 5
RESERVED == 7

Max(a, b) == IF a >= b THEN a ELSE b

ContentDurMin(a, n) == Min(a - RESERVED, n * SECTION_MIN)
\* content_dur = max(audio_dur - 7.0, num_sections * 5.0)
ContentDur(a, n) == Max(a - RESERVED, n * SECTION_MIN)

\* sections, audio_dur, num_sections, content_dur, per_section
run_begin ==
    /\ rpc = "begin"
    /\ rpc' = "sections"
    /\ sidx' = 1
    /\ clipsMade' = 0
    /\ audio_dur' = IF probeOk THEN rAudio ELSE 0
    /\ num_sections' = Max(Len(footage), 1)
    /\ content_dur' = ContentDur(audio_dur', num_sections')
    /\ UNCHANGED <<footage, rruns, rresult, rwhy, rAudio, probeOk, rTimelineN,
                   rFinalN>>
    /\ UNCHANGED notRun

\* one turn of `for idx, section in enumerate(sections)`
run_section ==
    /\ rpc = "sections"
    /\ sidx <= Len(footage)
    /\ IF ~footage[sidx]
       THEN /\ sidx' = sidx + 1
            /\ UNCHANGED <<rpc, clipsMade, rruns, rresult, rwhy>>
       ELSE /\ rruns' = rruns + 1
            /\ \E ok \in BOOLEAN :
                 IF ok
                 THEN /\ clipsMade' = clipsMade + 1
                      /\ sidx' = sidx + 1
                      /\ UNCHANGED <<rpc, rresult, rwhy>>
                 ELSE /\ RRaise("clip")
                      /\ UNCHANGED <<sidx, clipsMade>>
    /\ UNCHANGED <<footage, rAudio, probeOk, audio_dur, num_sections,
                   content_dur, rTimelineN, rFinalN>>
    /\ UNCHANGED notRun

\* after the loop: the test of section_clips, then assemble_video
run_assemble ==
    /\ rpc = "sections"
    /\ sidx > Len(footage)
    /\ IF NoSectionClips(clipsMade)
       THEN /\ RRaise("noclips")
            /\ UNCHANGED <<rruns, rTimelineN, rFinalN>>
       ELSE /\ rruns' = rruns + 1
            /\ \E ok \in BOOLEAN :
                 IF ok
                 THEN /\ rpc' = "thumb"
                      \* every section clip lasts per_section; the slates
                      \* last 2 s and 5 s; the mux keeps the shorter stream
                      /\ rTimelineN' =
                             (INTRO_DUR + OUTRO_DUR) * num_sections
                             + clipsMade * content_dur
                      /\ rFinalN' = Mux(rTimelineN', num_sections * rAudio)
                      /\ UNCHANGED <<rresult, rwhy>>
                 ELSE /\ RRaise("assemble")
                      /\ UNCHANGED <<rTimelineN, rFinalN>>
    /\ UNCHANGED <<footage, sidx, clipsMade, rAudio, probeOk, audio_dur,
                   num_sections, content_dur>>
    /\ UNCHANGED notRun

\* generate_thumbnail(script) and the return
run_thumbnail ==
    /\ rpc = "thumb"
    /\ \E ok \in BOOLEAN :
         IF ok
         THEN /\ rpc' = "done"
              /\ rresult' = "returned"
              /\ UNCHANGED rwhy
         ELSE RRaise("thumbnail")
    /\ UNCHANGED <<footage, sidx, clipsMade, rruns, rAudio, probeOk, audio_dur,
                   num_sections, content_dur, rTimelineN, rFinalN>>
    /\ UNCHANGED notRun

RunInit ==
    /\ rpc = "begin"
    /\ \E n \in 0..MaxSections : footage \in [1..n -> BOOLEAN]
    /\ sidx = 1
    /\ clipsMade = 0
    /\ rruns = 0
    /\ rresult = "running"
    /\ rwhy = "none"
    /\ rAudio \in 1..MaxRunAudio
    /\ probeOk \in BOOLEAN
    /\ audio_dur = 0
    /\ num_sections = 1
    /\ content_dur = 0
    /\ rTimelineN = -1
    /\ rFinalN = -1
    \* run() of upload.py is not running
    /\ upc = "ended"
    /\ ustate = "INIT"
    /\ retries = 0
    /\ numChunks = 1
    /\ acked = 0
    /\ waits = <<>>
    /\ log = <<>>
    /\ lastStatus = 0
    /\ response = 0
    /\ uresult = "running"
    /\ returnedId = 0
    /\ thumbCalls = 0
    /\ thumbRes = "none"
    /\ thumbKey = 0
    \* create_section_clip is not running
    /\ cpc = "idle"
    /\ clipDur = <<>>
    /\ target = 1
    /\ remaining = 0
    /\ entries = <<>>
    /\ pos = 1
    /\ idx = 0
    /\ concatFile = "absent"
    /\ transcodes = 0
    /\ outDur = -1
    /\ cresult = "running"
    /\ changed = FALSE
    \* assemble_video is not running
    /\ apc = "idle"
    /\ secClips = <<>>
    /\ finalFile = "absent"
    /\ introFile = "absent"
    /\ outroFile = "absent"
    /\ finalConcat = "absent"
    /\ videoOnly = "absent"
    /\ ctaIn = -2
    /\ outroCaption = [text |-> "", len |-> 0]
    /\ timeline = <<>>
    /\ timelineDur = -1
    /\ audioDur = -1
    /\ finalDur = -1
    /\ aruns = 0
    /\ aresult = "running"
    \* generate_thumbnail is not running
    /\ tpc = "idle"
    /\ topic = "absent"
    /\ firstSection = "none"
    /\ titleSrc = "none"
    /\ words = <<>>
    /\ wpos = 1
    /\ lines = <<>>
    /\ current = <<>>
    \* the upload metadata is not being built
    /\ mpc = "idle"
    /\ secTitles = <<>>
    /\ audience = 0
    /\ rawTitle = 0
    /\ mtitle = 0
    /\ mi = 1
    /\ rawTags = <<>>
    /\ tags = <<>>
    \* authenticate_youtube is not running
    /\ ypc = "idle"
    /\ secretFile = TRUE
    /\ credFile = AbsentFile
    /\ creds = NoCreds
    /\ credsFrom = "none"
    /\ persisted = NoCreds
    /\ service = NoCreds
    /\ yresult = "running"

RunNext ==
    \/ run_begin
    \/ run_section
    \/ run_assemble
    \/ run_thumbnail

----------------------------------------------------------------------------
\* editor.py: generate_thumbnail

MAX_CHARS_PER_LINE == 28
THUMB_H == 720
LINE_HEIGHT == 72
DEFAULT_TITLE_LEN == 5

\* the word lengths tried: short words, words that pair up to the line
\* width, and words at and over the line width
WordLens == {1, 5, 13, 14, 15, MAX_CHARS_PER_LINE, MAX_CHARS_PER_LINE + 1}

WordSeqs == UNION {[1..n -> WordLens] : n \in 0..MaxWords}

SelectTitleSectionFirst(t, sec) ==
    IF sec \in {"empty", "text"} THEN "section"
    ELSE IF t = "text" THEN "topic"
    ELSE "default"
\* title = script.get("selected_topic", ""); if not title: title =
\* sections[0].get("title", "Video") if sections else "Video"
SelectTitle(t, sec) ==
    IF t = "text" THEN "topic"
    ELSE IF sec \in {"empty", "text"} THEN "section"
    ELSE "default"

\* title.split() for the title taken from source `src`
TitleWords(src) ==
    IF src = "default" THEN {<<DEFAULT_TITLE_LEN>>}
    ELSE IF src = "section" /\ firstSection = "empty" THEN {<<>>}
    ELSE WordSeqs

RECURSIVE SumLens(_)
SumLens(ws) == IF ws = <<>> THEN 0 ELSE Head(ws) + SumLens(Tail(ws))

\* len() of the words joined by single spaces
LineLen(ws) == IF ws = <<>> THEN 0 ELSE SumLens(ws) + Len(ws) - 1

BreaksAlways(cur, w) == cur # <<>>
\* `len(test) > max_chars_per_line and current_line`,
\* test = f"{current_line} {word}".strip()
Breaks(cur, w) ==
    LineLen(Append(cur, w)) > MAX_CHARS_PER_LINE /\ cur # <<>>

\* the canvas, the gradient, the title and the font
thumb_title ==
    /\ tpc = "title"
    /\ titleSrc' = SelectTitle(topic, firstSection)
    /\ words' \in TitleWords(SelectTitle(topic, firstSection))
    /\ wpos' = 1
    /\ lines' = <<>>
    /\ current' = <<>>
    /\ tpc' = "wrap"
    /\ UNCHANGED <<topic, firstSection>>
    /\ UNCHANGED notThumb

\* one turn of `for word in words`
thumb_wrap ==
    /\ tpc = "wrap"
    /\ wpos <= Len(words)
    /\ IF Breaks(current, words[wpos])
       THEN /\ lines' = Append(lines, current)
            /\ current' = <<words[wpos]>>
       ELSE /\ current' = Append(current, words[wpos])
            /\ UNCHANGED lines
    /\ wpos' = wpos + 1
    /\ UNCHANGED <<tpc, topic, firstSection, titleSrc, words>>
    /\ UNCHANGED notThumb

\* `if current_line: lines.append(current_line)`, the drawing and the save
thumb_draw ==
    /\ tpc = "wrap"
    /\ wpos > Len(words)
    /\ lines' = IF current # <<>> THEN Append(lines, current) ELSE lines
    /\ tpc' = "done"
    /\ UNCHANGED <<topic, firstSection, titleSrc, words, wpos, current>>
    /\ UNCHANGED notThumb

ThumbInit ==
    /\ tpc = "title"
    /\ topic \in {"absent", "empty", "text"}
    /\ firstSection \in {"none", "nokey", "empty", "text"}
    /\ titleSrc = "none"
    /\ words = <<>>
    /\ wpos = 1
    /\ lines = <<>>
    /\ current = <<>>
    \* run() of upload.py is not running
    /\ upc = "ended"
    /\ ustate = "INIT"
    /\ retries = 0
    /\ numChunks = 1
    /\ acked = 0
    /\ waits = <<>>
    /\ log = <<>>
    /\ lastStatus = 0
    /\ response = 0
    /\ uresult = "running"
    /\ returnedId = 0
    /\ thumbCalls = 0
    /\ thumbRes = "none"
    /\ thumbKey = 0
    \* create_section_clip is not running
    /\ cpc = "idle"
    /\ clipDur = <<>>
    /\ target = 1
    /\ remaining = 0
    /\ entries = <<>>
    /\ pos = 1
    /\ idx = 0
    /\ concatFile = "absent"
    /\ transcodes = 0
    /\ outDur = -1
    /\ cresult = "running"
    /\ changed = FALSE
    \* assemble_video is not running
    /\ apc = "idle"
    /\ secClips = <<>>
    /\ finalFile = "absent"
    /\ introFile = "absent"
    /\ outroFile = "absent"
    /\ finalConcat = "absent"
    /\ videoOnly = "absent"
    /\ ctaIn = -2
    /\ outroCaption = [text |-> "", len |-> 0]
    /\ timeline = <<>>
    /\ timelineDur = -1
    /\ audioDur = -1
    /\ finalDur = -1
    /\ aruns = 0
    /\ aresult = "running"
    \* run() of editor.py is not running
    /\ rpc = "idle"
    /\ footage = <<>>
    /\ sidx = 1
    /\ clipsMade = 0
    /\ rruns = 0
    /\ rresult = "running"
    /\ rwhy = "none"
    /\ rAudio = 1
    /\ probeOk = TRUE
    /\ audio_dur = 0
    /\ num_sections = 1
    /\ content_dur = 0
    /\ rTimelineN = -1
    /\ rFinalN = -1
    \* the upload metadata is not being built
    /\ mpc = "idle"
    /\ secTitles = <<>>
    /\ audience = 0
    /\ rawTitle = 0
    /\ mtitle = 0
    /\ mi = 1
    /\ rawTags = <<>>
    /\ tags = <<>>
    \* authenticate_youtube is not running
    /\ ypc = "idle"
    /\ secretFile = TRUE
    /\ credFile = AbsentFile
    /\ creds = NoCreds
    /\ credsFrom = "none"
    /\ persisted = NoCreds
    /\ service = NoCreds
    /\ yresult = "running"

ThumbNext ==
    \/ thumb_title
    \/ thumb_wrap
    \/ thumb_draw

----------------------------------------------------------------------------
\* upload.py: upload_video, the metadata built from the script

TITLE_CAP == 100
TAG_CAP == 30

\* lengths of the title chosen from the script
TitleLens == {1, 50} \cup (99..MaxTitleLen)

\* section titles, as numbers: all distinct, distinct in falling order,
\* each title twice, and a cycle of two titles and an empty one
SectionTitleLists ==
    UNION {{[i \in 1..n |-> i],
            [i \in 1..n |-> n + 1 - i],
            [i \in 1..n |-> (i + 1) \div 2],
            [i \in 1..n |-> i % 3]} : n \in 0..MaxMetaSections}

\* no audience, an audience equal to a section title, a new one
Audiences == {0, 1, 1000}

Truncate(len, n) == IF len > n THEN n ELSE len

Range(s) == {s[k] : k \in 1..Len(s)}

RECURSIVE DedupeKeepLast(_)
DedupeKeepLast(s) ==
    IF s = <<>> THEN <<>>
    ELSE LET r == DedupeKeepLast(Tail(s))
         IN  IF Head(s) \in Range(r) THEN r ELSE <<Head(s)>> \o r
\* list(dict.fromkeys(tags)): a key keeps the place of its first insertion
RECURSIVE Dedupe(_)
Dedupe(s) ==
    IF s = <<>> THEN <<>>
    ELSE LET r == Dedupe(SubSeq(s, 1, Len(s) - 1))
             x == s[Len(s)]
         IN  IF x \in Range(r) THEN r ELSE Append(r, x)

\* [:30]
Cap(s) == SubSeq(s, 1, Truncate(Len(s), TAG_CAP))

\* the title from the script, then title[:100]
meta_title ==
    /\ mpc = "title"
    /\ \E len \in TitleLens :
        /\ rawTitle' = len
        /\ mtitle' = Truncate(len, TITLE_CAP)
    /\ mpc' = "sections"
    /\ mi' = 1
    /\ rawTags' = <<>>
    /\ UNCHANGED <<secTitles, audience, tags>>
    /\ UNCHANGED notMeta

\* one turn of `for section in script.get("sections", [])`
meta_section ==
    /\ mpc = "sections"
    /\ mi <= Len(secTitles)
    /\ rawTags' = IF secTitles[mi] # 0 THEN Append(rawTags, secTitles[mi])
                  ELSE rawTags
    /\ mi' = mi + 1
    /\ UNCHANGED <<mpc, secTitles, audience, rawTitle, mtitle, tags>>
    /\ UNCHANGED notMeta

\* `if target_audience: tags.append(target_audience)`
meta_audience ==
    /\ mpc = "sections"
    /\ mi > Len(secTitles)
    /\ rawTags' = IF audience # 0 THEN Append(rawTags, audience) ELSE rawTags
    /\ mpc' = "dedupe"
    /\ UNCHANGED <<secTitles, audience, rawTitle, mtitle, mi, tags>>
    /\ UNCHANGED notMeta

\* tags = list(dict.fromkeys(tags))[:30]
meta_dedupe ==
    /\ mpc = "dedupe"
    /\ tags' = Cap(Dedupe(rawTags))
    /\ mpc' = "done"
    /\ UNCHANGED <<secTitles, audience, rawTitle, mtitle, mi, rawTags>>
    /\ UNCHANGED notMeta

MetaInit ==
    /\ mpc = "title"
    /\ secTitles \in SectionTitleLists
    /\ audience \in Audiences
    /\ rawTitle = 0
    /\ mtitle = 0
    /\ mi = 1
    /\ rawTags = <<>>
    /\ tags = <<>>
    \* run() of upload.py is not running
    /\ upc = "ended"
    /\ ustate = "INIT"
    /\ retries = 0
    /\ numChunks = 1
    /\ acked = 0
    /\ waits = <<>>
    /\ log = <<>>
    /\ lastStatus = 0
    /\ response = 0
    /\ uresult = "running"
    /\ returnedId = 0
    /\ thumbCalls = 0
    /\ thumbRes = "none"
    /\ thumbKey = 0
    \* create_section_clip is not running
    /\ cpc = "idle"
    /\ clipDur = <<>>
    /\ target = 1
    /\ remaining = 0
    /\ entries = <<>>
    /\ pos = 1
    /\ idx = 0
    /\ concatFile = "absent"
    /\ transcodes = 0
    /\ outDur = -1
    /\ cresult = "running"
    /\ changed = FALSE
    \* assemble_video is not running
    /\ apc = "idle"
    /\ secClips = <<>>
    /\ finalFile = "absent"
    /\ introFile = "absent"
    /\ outroFile = "absent"
    /\ finalConcat = "absent"
    /\ videoOnly = "absent"
    /\ ctaIn = -2
    /\ outroCaption = [text |-> "", len |-> 0]
    /\ timeline = <<>>
    /\ timelineDur = -1
    /\ audioDur = -1
    /\ finalDur = -1
    /\ aruns = 0
    /\ aresult = "running"
    \* run() of editor.py is not running
    /\ rpc = "idle"
    /\ footage = <<>>
    /\ sidx = 1
    /\ clipsMade = 0
    /\ rruns = 0
    /\ rresult = "running"
    /\ rwhy = "none"
    /\ rAudio = 1
    /\ probeOk = TRUE
    /\ audio_dur = 0
    /\ num_sections = 1
    /\ content_dur = 0
    /\ rTimelineN = -1
    /\ rFinalN = -1
    \* generate_thumbnail is not running
    /\ tpc = "idle"
    /\ topic = "absent"
    /\ firstSection = "none"
    /\ titleSrc = "none"
    /\ words = <<>>
    /\ wpos = 1
    /\ lines = <<>>
    /\ current = <<>>
    \* authenticate_youtube is not running
    /\ ypc = "idle"
    /\ secretFile = TRUE
    /\ credFile = AbsentFile
    /\ creds = NoCreds
    /\ credsFrom = "none"
    /\ persisted = NoCreds
    /\ service = NoCreds
    /\ yresult = "running"

MetaNext ==
    \/ meta_title
    \/ meta_section
    \/ meta_audience
    \/ meta_dedupe

----------------------------------------------------------------------------
\* upload.py: authenticate_youtube

\* what a successful refresh or a completed OAuth flow yields
Fresh(rt) ==
    [some |-> TRUE, token |-> TRUE, valid |-> TRUE, expired |-> FALSE,
     refresh_token |-> rt]

\* `if not creds or not creds.valid`
NeedsAuth(c) == ~c.some \/ ~c.valid

\* `if creds and creds.expired and creds.refresh_token`
Refreshable(c) == c.some /\ c.expired /\ c.refresh_token

\* `if creds is None`
RunFlow(c) == ~c.some

\* an exception leaves authenticate_youtube
YRaise ==
    /\ ypc' = "done"
    /\ yresult' = "raised"

\* the client secret check; creds = None
auth_begin ==
    /\ ypc = "begin"
    /\ IF secretFile
       THEN /\ ypc' = "load"
            /\ UNCHANGED yresult
       ELSE YRaise
    /\ creds' = NoCreds
    /\ UNCHANGED <<secretFile, credFile, credsFrom, persisted, service>>
    /\ UNCHANGED notAuth

\* `if os.path.isfile(CREDENTIALS_PATH)`: from_authorized_user_file
auth_load ==
    /\ ypc = "load"
    /\ IF credFile.kind \in {"absent", "unreadable"}
       THEN UNCHANGED <<creds, credsFrom>>
       ELSE /\ creds' = credFile.c
            /\ credsFrom' = "file"
    /\ ypc' = "check"
    /\ UNCHANGED <<secretFile, credFile, persisted, service, yresult>>
    /\ UNCHANGED notAuth

\* `if not creds or not creds.valid`, and the refresh inside it
auth_check ==
    /\ ypc = "check"
    /\ IF NeedsAuth(creds)
       THEN /\ ypc' = "flow"
            /\ IF Refreshable(creds)
               THEN \E ok \in BOOLEAN :
                      IF ok
                      THEN /\ creds' = Fresh(TRUE)
                           /\ credsFrom' = "refresh"
                      ELSE /\ creds' = NoCreds
                           /\ credsFrom' = "none"
               ELSE UNCHANGED <<creds, credsFrom>>
       ELSE /\ ypc' = "build"
            /\ UNCHANGED <<creds, credsFrom>>
    /\ UNCHANGED <<secretFile, credFile, persisted, service, yresult>>
    /\ UNCHANGED notAuth

\* `if creds is None`: the interactive OAuth flow
auth_flow ==
    /\ ypc = "flow"
    /\ IF RunFlow(creds)
       THEN \E ok \in BOOLEAN :
              IF ok
              THEN /\ \E rt \in BOOLEAN : creds' = Fresh(rt)
                   /\ credsFrom' = "flow"
                   /\ ypc' = "persist"
                   /\ UNCHANGED yresult
              ELSE /\ YRaise
                   /\ UNCHANGED <<creds, credsFrom>>
       ELSE /\ ypc' = "persist"
            /\ UNCHANGED <<creds, credsFrom, yresult>>
    /\ UNCHANGED <<secretFile, credFile, persisted, service>>
    /\ UNCHANGED notAuth

\* os.makedirs; f.write(creds.to_json())
auth_persist ==
    /\ ypc = "persist"
    /\ \E ok \in BOOLEAN :
         IF ok
         THEN /\ persisted' = creds
              /\ credFile' = [kind |-> "saved", c |-> creds]
              /\ ypc' = "build"
              /\ UNCHANGED yresult
         ELSE /\ YRaise
              /\ UNCHANGED <<persisted, credFile>>
    /\ UNCHANGED <<secretFile, creds, credsFrom, service>>
    /\ UNCHANGED notAuth

\* service = build("youtube", "v3", credentials=creds); return service
auth_build ==
    /\ ypc = "build"
    /\ \E ok \in BOOLEAN :
         IF ok
         THEN /\ service' = creds
              /\ ypc' = "done"
              /\ yresult' = "returned"
         ELSE /\ YRaise
              /\ UNCHANGED service
    /\ UNCHANGED <<secretFile, credFile, creds, credsFrom, persisted>>
    /\ UNCHANGED notAuth

AuthInit ==
    /\ ypc = "begin"
    /\ secretFile \in BOOLEAN
    /\ credFile \in SavedFiles
    /\ creds = NoCreds
    /\ credsFrom = "none"
    /\ persisted = NoCreds
    /\ service = NoCreds
    /\ yresult = "running"
    \* run() of upload.py is not running
    /\ upc = "ended"
    /\ ustate = "INIT"
    /\ retries = 0
    /\ numChunks = 1
    /\ acked = 0
    /\ waits = <<>>
    /\ log = <<>>
    /\ lastStatus = 0
    /\ response = 0
    /\ uresult = "running"
    /\ returnedId = 0
    /\ thumbCalls = 0
    /\ thumbRes = "none"
    /\ thumbKey = 0
    \* create_section_clip is not running
    /\ cpc = "idle"
    /\ clipDur = <<>>
    /\ target = 1
    /\ remaining = 0
    /\ entries = <<>>
    /\ pos = 1
    /\ idx = 0
    /\ concatFile = "absent"
    /\ transcodes = 0
    /\ outDur = -1
    /\ cresult = "running"
    /\ changed = FALSE
    \* assemble_video is not running
    /\ apc = "idle"
    /\ secClips = <<>>
    /\ finalFile = "absent"
    /\ introFile = "absent"
    /\ outroFile = "absent"
    /\ finalConcat = "absent"
    /\ videoOnly = "absent"
    /\ ctaIn = -2
    /\ outroCaption = [text |-> "", len |-> 0]
    /\ timeline = <<>>
    /\ timelineDur = -1
    /\ audioDur = -1
    /\ finalDur = -1
    /\ aruns = 0
    /\ aresult = "running"
    \* run() of editor.py is not running
    /\ rpc = "idle"
    /\ footage = <<>>
    /\ sidx = 1
    /\ clipsMade = 0
    /\ rruns = 0
    /\ rresult = "running"
    /\ rwhy = "none"
    /\ rAudio = 1
    /\ probeOk = TRUE
    /\ audio_dur = 0
    /\ num_sections = 1
    /\ content_dur = 0
    /\ rTimelineN = -1
    /\ rFinalN = -1
    \* generate_thumbnail is not running
    /\ tpc = "idle"
    /\ topic = "absent"
    /\ firstSection = "none"
    /\ titleSrc = "none"
    /\ words = <<>>
    /\ wpos = 1
    /\ lines = <<>>
    /\ current = <<>>
    \* the upload metadata is not being built
    /\ mpc = "idle"
    /\ secTitles = <<>>
    /\ audience = 0
    /\ rawTitle = 0
    /\ mtitle = 0
    /\ mi = 1
    /\ rawTags = <<>>
    /\ tags = <<>>

AuthNext ==
    \/ auth_begin
    \/ auth_load
    \/ auth_check
    \/ auth_flow
    \/ auth_persist
    \/ auth_build

----------------------------------------------------------------------------
\* Specifications

UploadSpec == UploadInit /\ [][UploadNext]_vars

\* run() is one thread of control: a step that can be taken is taken
UploadLiveSpec == UploadInit /\ [][UploadNext]_vars /\ WF_vars(UploadNext)

ClipSpec == ClipInit /\ [][ClipNext]_vars

\* the interpreter keeps running the call; the file system owes nothing
ClipLiveSpec == ClipInit /\ [][ClipNext]_vars /\ WF_vars(ClipStep)

AssembleSpec == AssembleInit /\ [][AssembleNext]_vars

RunSpec == RunInit /\ [][RunNext]_vars

ThumbSpec == ThumbInit /\ [][ThumbNext]_vars

MetaSpec == MetaInit /\ [][MetaNext]_vars

AuthSpec == AuthInit /\ [][AuthNext]_vars

EditorNext ==
    \/ ClipNext
    \/ AssembleNext

EditorSpec == EditorInit /\ [][EditorNext]_vars

----------------------------------------------------------------------------
\* Claims about upload_video (checked under UploadSpec)

LoopEnded == upc \in {"thumb", "ended"} /\ log # <<>>
RunEnded == upc = "ended" /\ log # <<>>

\* C1: in every reachable state of the upload loop the retry count lies
\* between 0 and MAX_RETRIES, whatever the chunk outcomes were.
C1_RetryCountBounded == retries \in 0..MAX_RETRIES

C1_Witness == ustate = "FAILED" /\ retries = MAX_RETRIES /\ NumAcks > 0

\* C2: a run that ended after f transient failures and no non-retryable one
\* has retried min(f, MAX_RETRIES) times; with f <= MAX_RETRIES it is COMPLETE
\* with retries = f and upload_video has returned the video identifier.
C2_RetriesAndReturn ==
    (RunEnded /\ NumFatal = 0) =>
        /\ retries = Min(NumTransient, MAX_RETRIES)
        /\ (NumTransient <= MAX_RETRIES =>
                /\ ustate = "COMPLETE"
                /\ retries = NumTransient
                /\ uresult = "returned"
                /\ returnedId = response
                /\ returnedId \in VideoIds)

\* C2 (retry count alone): when the loop has ended without a non-retryable
\* failure, retries = min(f, MAX_RETRIES), and with f <= MAX_RETRIES the
\* session is COMPLETE and holds the identifier of the response.
C2_RetriesAtLoopEnd ==
    (LoopEnded /\ NumFatal = 0) =>
        /\ retries = Min(NumTransient, MAX_RETRIES)
        /\ (NumTransient <= MAX_RETRIES =>
                ustate = "COMPLETE" /\ response \in VideoIds)

\* C3: when every chunk attempt fails transiently the run ends FAILED with
\* the error raised, after MAX_RETRIES retries and MAX_RETRIES + 1 attempts,
\* and no identifier is ever returned.
C3_AllTransientFails ==
    /\ (NumAcks = 0 => returnedId = 0 /\ response = 0 /\ uresult # "returned")
    /\ (RunEnded /\ NumAcks = 0 /\ NumFatal = 0) =>
           /\ ustate = "FAILED"
           /\ uresult = "raised"
           /\ retries = MAX_RETRIES
           /\ Len(log) = MAX_RETRIES + 1

C3_Witness ==
    RunEnded /\ NumAcks = 0 /\ NumFatal = 0 /\ NumTransient = MAX_RETRIES + 1

\* C4: the n-th backoff wait of an upload is RETRY_BACKOFF^n seconds, for
\* HTTP 5xx errors and generic exceptions alike, so the waits strictly
\* increase from each retry to the next.
C4_BackoffGrows ==
    /\ Len(waits) = retries
    /\ \A n \in 1..Len(waits) : waits[n] = RETRY_BACKOFF ^ n
    /\ \A n \in 1..(Len(waits) - 1) : waits[n] < waits[n + 1]

C4_Witness ==
    /\ Len(waits) = MAX_RETRIES
    /\ \E j, k \in 1..Len(log) : log[j].res = "http5xx" /\ log[k].res = "exc"

\* C5: an HTTP error whose status is not 500/502/503/504 ends the session
\* in FAILED at once: the error is raised, nothing is slept and the retry
\* count is not incremented, even when retry budget remains.
C5_NonRetryableFailsAtOnce ==
    (lastStatus # 0 /\ lastStatus \notin {500, 502, 503, 504}) =>
        /\ upc = "ended"
        /\ ustate = "FAILED"
        /\ uresult = "raised"
        /\ retries = NumTransient
        /\ Len(waits) = NumTransient
        /\ log[Len(log)].res = "httpfatal"

C5_Witness ==
    /\ lastStatus = 403
    /\ ustate = "FAILED"
    /\ retries = 2
    /\ NumAcks = 1

\* C6: once the upload is COMPLETE, whatever the thumbnail-attach call does,
\* upload_video returns the identifier of the response and raises nothing.
C6_ThumbnailNeverChangesOutcome ==
    (ustate = "COMPLETE" /\ upc = "ended") =>
        /\ uresult = "returned"
        /\ returnedId = response

\* C7 (as stated): the session moves only along
\* INIT -> AUTHENTICATED -> UPLOADING -> (RETRY_WAIT -> UPLOADING)* ->
\* COMPLETE | FAILED, the last two being entered from UPLOADING.
ChainEdges ==
    { <<"INIT", "AUTHENTICATED">>, <<"AUTHENTICATED", "UPLOADING">>,
      <<"UPLOADING", "RETRY_WAIT">>, <<"RETRY_WAIT", "UPLOADING">>,
      <<"UPLOADING", "COMPLETE">>, <<"UPLOADING", "FAILED">> }

C7_OnlyChainTransitions ==
    [][ustate' # ustate => <<ustate, ustate'>> \in ChainEdges]_vars

\* C7 (amended): the session moves only along the chain above or from INIT
\* or AUTHENTICATED straight to FAILED (authentication failed, video file
\* missing); COMPLETE and FAILED are terminal and, apart from the
\* RETRY_WAIT/UPLOADING cycle, no earlier state is entered again.
C7_ChainOrEarlyFailure ==
    [][ustate' # ustate =>
          <<ustate, ustate'>> \in
              ChainEdges \cup { <<"INIT", "FAILED">>,
                                <<"AUTHENTICATED", "FAILED">> }]_vars

C7_Witness ==
    /\ ustate = "COMPLETE"
    /\ upc = "ended"
    /\ retries >= 2
    /\ NumAcks >= 2

\* C8: a transient failure and its retry neither advance nor rewind the
\* transfer: the acknowledged chunks are unchanged across RETRY_WAIT, the
\* chunk sent after the wait is the chunk that failed, and the acknowledged
\* chunks never decrease.
C8_RetryKeepsProgress ==
    [][ /\ acked' >= acked
        /\ (ustate = "RETRY_WAIT" \/ ustate' = "RETRY_WAIT") => acked' = acked
        /\ (log' # log /\ log # <<>> /\ log[Len(log)].res \in Transient) =>
               log'[Len(log')].chunk = log[Len(log)].chunk ]_vars

C8_Witness ==
    \E k \in 1..(Len(log) - 1) :
        /\ log[k].res \in Transient
        /\ log[k].chunk = 2
        /\ log[k + 1].chunk = 2
        /\ log[k + 1].res = "ack"

----------------------------------------------------------------------------
\* Claims about create_section_clip (checked under ClipSpec)

SomePositive == \E i \in DOMAIN clipDur : clipDur[i] > 0
AllZero == clipDur # <<>> /\ \A i \in DOMAIN clipDur : _probe_duration(i) = 0

RECURSIVE FootageOf(_)
FootageOf(e) == IF e = <<>> THEN 0 ELSE clipDur[Head(e)] + FootageOf(Tail(e))

C10_AllZeroFailsFast ==
    AllZero =>
        /\ concatFile = "absent"
        /\ transcodes = 0
        /\ (cpc = "done" => cresult = "raised" /\ outDur = -1)

\* the clips selected by the first pass: each looping turn adds one entry
FirstPassCount == Len(entries) - idx
FirstPassEntries == SubSeq(entries, 1, FirstPassCount)

CanProgress == \E k \in 1..Len(entries) : _probe_duration(entries[k]) > 0

\* the state the looping pass cannot leave: time is still missing and every
\* selected clip now probes as 0, so each further turn appends one more
\* entry and leaves `remaining` as it is
StuckLoop ==
    /\ cpc = "loop"
    /\ remaining > 0
    /\ entries # <<>>
    /\ ~CanProgress

\* C21 (checked under ClipSpec): for a non-empty clip list and D > 0 the
\* selection loops end, whichever probe calls return 0: the looping pass is
\* never in a state where time is missing and no selected clip can supply
\* any.
C21_NoEndlessLoop == ~StuckLoop

\* the same under ClipLiveSpec, as a liveness property: the call ends; a
\* run still selecting at MaxEntries while some selected clip probes
\* positive counts as on its way to the end
SelectionTerminates ==
    <>(cpc = "done" \/ (Len(entries) >= MaxEntries /\ CanProgress))

\* C25: when some clip probes positive, the selected clips last at least
\* D, and without the last selected clip they last less than D.
C25_SelectionMinimal ==
    (cpc \in {"encode", "done"} /\ SomePositive /\ ~changed) =>
        /\ entries # <<>>
        /\ FootageOf(entries) >= target
        /\ FootageOf(SubSeq(entries, 1, Len(entries) - 1)) < target

C25_Witness ==
    /\ cpc = "done"
    /\ ~changed
    /\ clipDur = <<2, 4, 3>>
    /\ target = 5
    /\ entries = <<1, 2>>

----------------------------------------------------------------------------
\* Claims about assemble_video (checked under AssembleSpec)

AssembleReturned == apc = "done" /\ aresult = "returned"

\* C11: for every timeline duration and audio duration, equal ones included,
\* the final video lasts min(timeline duration, audio duration); a 12 s
\* timeline with 8 s of audio gives 8 s.
C11_FinalIsShortest ==
    AssembleReturned =>
        /\ timelineDur >= audioDur => finalDur = audioDur
        /\ timelineDur <= audioDur => finalDur = timelineDur

C11_Witness ==
    AssembleReturned /\ timelineDur = 12 /\ audioDur = 8 /\ finalDur = 8

\* C12: however assemble_video ends, and in particular after a failed
\* concat or mux, the final-video path holds a complete video of this run
\* or nothing: no partial file, no file of an earlier run.
C12_FinalCompleteOrAbsent ==
    (apc = "done" /\ finalConcat = "present") =>
        finalFile \in {"absent", "complete"}

\* C15: after a successful assemble_video run the intro slate, the outro
\* slate, the final concat list and the video-only file are gone and the
\* final video remains.
C15_IntermediatesRemoved ==
    AssembleReturned =>
        /\ introFile = "absent"
        /\ outroFile = "absent"
        /\ finalConcat = "absent"
        /\ videoOnly = "absent"
        /\ finalFile = "complete"

C15_Witness == AssembleReturned /\ Len(secClips) = 2 /\ aruns = 4

\* C16: the outro caption is the call-to-action itself when it has at most
\* 60 characters (60 included) and "Subscribe for more!" when it has more.
C16_OutroCaption ==
    /\ (ctaIn \in 0..60 => outroCaption = [text |-> "cta", len |-> ctaIn])
    /\ (ctaIn > 60 =>
            outroCaption = [text |-> "Subscribe for more!", len |-> 19])

C16_Witness ==
    /\ ctaIn = 60
    /\ outroCaption = [text |-> "cta", len |-> 60]
    /\ apc = "concat"

----------------------------------------------------------------------------
\* Claims about both functions of editor.py (checked under EditorSpec)

\* C14: create_section_clip with an empty clip list and assemble_video with
\* an empty section-clip list raise before any file is written, any slate is
\* made or any transcode is started.
C14_EmptyInputRejectedFirst ==
    /\ (cpc # "idle" /\ clipDur = <<>>) =>
           /\ cpc = "begin" \/ (cpc = "done" /\ cresult = "raised")
           /\ concatFile = "absent"
           /\ transcodes = 0
           /\ outDur = -1
    /\ (apc # "idle" /\ secClips = <<>>) =>
           /\ apc = "begin" \/ (apc = "done" /\ aresult = "raised")
           /\ aruns = 0
           /\ introFile = "absent" /\ outroFile = "absent"
           /\ finalConcat = "absent" /\ videoOnly = "absent"
           /\ finalFile \notin {"partial", "complete"}
           /\ timeline = <<>>

C14_Witness ==
    /\ apc = "done"
    /\ aresult = "raised"
    /\ secClips = <<>>
    /\ aruns = 0

----------------------------------------------------------------------------
\* Claims about run() of editor.py (checked under RunSpec)

SomeSectionBare == \E i \in DOMAIN footage : ~footage[i]
NoFootageAtAll == \A i \in DOMAIN footage : ~footage[i]

\* C13 (as stated): if any section has no raw footage, or no section clip
\* exists at all, the run aborts with a fatal error before any transcode.
C13_MissingFootageAborts ==
    (rpc # "idle" /\ (SomeSectionBare \/ NoFootageAtAll)) =>
        /\ rruns = 0
        /\ rpc = "done" => rresult = "raised"

\* C13 (amended): if no section clip exists at all (no section has raw
\* footage) the run aborts with a fatal error before any transcode is
\* attempted; a section without raw footage is skipped, and that alone
\* does not abort the run.
C13_NoClipsAborts ==
    /\ (rpc # "idle" /\ NoFootageAtAll) =>
           /\ rruns = 0
           /\ rpc = "done" => (rresult = "raised" /\ rwhy = "noclips")
    /\ rwhy = "noclips" => (NoFootageAtAll /\ rruns = 0 /\ clipsMade = 0)

C13_Witness ==
    /\ rpc = "done"
    /\ rwhy = "noclips"
    /\ Len(footage) = 2

\* a run that skipped a section and still returned
C13_SkipWitness ==
    /\ rpc = "done"
    /\ rresult = "returned"
    /\ SomeSectionBare

----------------------------------------------------------------------------
\* Claims about generate_thumbnail (checked under ThumbSpec)

\* C17: no line of the wrapped title is longer than 28 characters, and for
\* a title of at most 100 characters the number of lines times the line
\* height does not exceed the canvas height of 720.
C17_LinesFit ==
    tpc = "done" =>
        /\ \A k \in 1..Len(lines) : LineLen(lines[k]) <= 28
        /\ LineLen(words) <= 100 => Len(lines) * LINE_HEIGHT <= 720

\* C18: the title is the topic when it is non-empty, otherwise the first
\* section's caption when there is one, otherwise the default string; a
\* lower source is never used while a higher one is available.
C18_TitlePriority ==
    tpc \in {"wrap", "done"} =>
        /\ topic = "text" => titleSrc = "topic"
        /\ (topic # "text" /\ firstSection \in {"empty", "text"}) =>
               titleSrc = "section"
        /\ (topic # "text" /\ firstSection \in {"none", "nokey"}) =>
               (titleSrc = "default" /\ words = <<5>>)

C18_Witness ==
    /\ tpc = "done"
    /\ topic = "empty"
    /\ firstSection = "text"
    /\ titleSrc = "section"
    /\ Len(lines) = 2

----------------------------------------------------------------------------
\* Claims about the upload metadata (checked under MetaSpec)

\* the non-empty section titles in script order, then the audience
ExpectedRawTags ==
    SelectSeq(secTitles, LAMBDA x : x # 0)
        \o (IF audience # 0 THEN <<audience>> ELSE <<>>)

\* where v first stands in s
FirstPos(s, v) ==
    CHOOSE k \in 1..Len(s) : s[k] = v /\ \A j \in 1..(k - 1) : s[j] # v

\* C19: the title has at most 100 characters; the tag list has no
\* duplicate, has at most 30 entries, and holds the first distinct tags in
\* the order of their first occurrence (section titles in script order,
\* then the target audience).
C19_MetadataBounded ==
    mpc = "done" =>
        /\ mtitle <= 100
        /\ mtitle = (IF rawTitle <= 100 THEN rawTitle ELSE 100)
        /\ rawTags = ExpectedRawTags
        /\ Len(tags) <= 30
        /\ \A i, j \in 1..Len(tags) : i # j => tags[i] # tags[j]
        /\ \A i \in 1..Len(tags) : tags[i] \in Range(rawTags)
        /\ \A i, j \in 1..Len(tags) :
               i < j => FirstPos(rawTags, tags[i]) < FirstPos(rawTags, tags[j])
        /\ \A v \in Range(rawTags) :
               v \in Range(tags)
               \/ /\ Len(tags) = 30
                  /\ FirstPos(rawTags, v) > FirstPos(rawTags, tags[30])

C19_Witness ==
    /\ mpc = "done"
    /\ rawTitle > 100
    /\ mtitle = 100
    /\ Len(rawTags) > 31
    /\ audience = 1
    /\ Len(tags) = 30
    /\ Cardinality(Range(rawTags)) > 30

----------------------------------------------------------------------------
\* Claims about the timeline and the temporary files

RECURSIVE SumSeq(_)
SumSeq(q) == IF q = <<>> THEN 0 ELSE Head(q) + SumSeq(Tail(q))

\* C22 (checked under AssembleSpec): the timeline is the intro slate, the
\* section clips in the order given, the outro slate: n + 2 entries for n
\* section clips, none dropped, duplicated or reordered, lasting
\* 2 s + the section clips + 5 s.
C22_TimelineExact ==
    (apc \in {"mux", "done"} /\ finalConcat # "absent") =>
        LET n == Len(secClips)
        IN  /\ Len(timeline) = n + 2
            /\ timeline[1] = [kind |-> "intro", i |-> 0, dur |-> 2]
            /\ timeline[n + 2] = [kind |-> "outro", i |-> 0, dur |-> 5]
            /\ \A k \in 1..n :
                   timeline[k + 1] =
                       [kind |-> "section", i |-> k, dur |-> secClips[k]]
            /\ timelineDur # -1 => timelineDur = 2 + SumSeq(secClips) + 5

C22_Witness ==
    /\ apc = "done"
    /\ aresult = "returned"
    /\ secClips = <<3, 1, 2>>
    /\ Len(timeline) = 5
    /\ timelineDur = 13

\* C23 (checked under EditorSpec): when create_section_clip or
\* assemble_video has ended, in success or in an encode error, none of its
\* temporary files is left: the per-section concat list, the intro and
\* outro slates, the final concat list, the silent video-only file.
C23_TemporariesDeleted ==
    /\ cpc = "done" => concatFile \in {"absent", "removed"}
    /\ apc = "done" =>
           /\ introFile = "absent"
           /\ outroFile = "absent"
           /\ finalConcat = "absent"
           /\ videoOnly = "absent"

----------------------------------------------------------------------------
\* Claims about the order of the remote calls and the retry budget

\* C24 (checked under UploadSpec): the upload request is begun only in
\* AUTHENTICATED, an authentication failure ends the run at once, the
\* thumbnail call is made only in COMPLETE, at most once, with the
\* identifier that is returned, and nothing is called once FAILED.
C24_Step ==
    /\ (upc # "chunk" /\ upc # "sleep" /\ upc' = "chunk") =>
           ustate = "AUTHENTICATED"
    /\ (upc = "auth" /\ ustate' = "FAILED") =>
           (upc' = "ended" /\ log' = <<>> /\ thumbCalls' = 0)
    /\ thumbCalls' # thumbCalls =>
           /\ ustate = "COMPLETE"
           /\ ustate' = "COMPLETE"
           /\ thumbCalls = 0
           /\ thumbCalls' = 1
           /\ thumbKey' = response
           /\ uresult' = "returned" => returnedId' = thumbKey'
    /\ ustate = "FAILED" => (log' = log /\ thumbCalls' = thumbCalls)

C24_RemoteCallOrder ==
    /\ [][C24_Step]_vars
    /\ [](ustate = "FAILED" => thumbCalls = 0)
    /\ [](log # <<>> => ustate \in {"UPLOADING", "RETRY_WAIT", "COMPLETE",
                                     "FAILED"})

C24_Witness ==
    /\ upc = "ended"
    /\ ustate = "COMPLETE"
    /\ thumbCalls = 1
    /\ thumbKey = 12
    /\ returnedId = 12
    /\ NumTransient = 1

\* the failed attempts at chunk c
FailuresAt(c) ==
    Cardinality({k \in 1..Len(log) : log[k].chunk = c /\ log[k].res # "ack"})

\* C26 (checked under UploadSpec): the retry count never goes down, an
\* acknowledged chunk leaves it as it is, and one upload makes at most
\* MAX_RETRIES backoff waits over all its chunks.
C26_Step ==
    /\ retries' >= retries
    /\ Len(log') > Len(log) /\ log'[Len(log')].res = "ack" => retries' = retries

C26_SharedBudget ==
    /\ [][C26_Step]_vars
    /\ [](Len(waits) <= 5 /\ Len(waits) = retries)

\* an upload that fails although no chunk failed more than once
C26_Witness ==
    /\ ustate = "FAILED"
    /\ NumFatal = 0
    /\ NumAcks = 5
    /\ Len(waits) = 5
    /\ \A c \in 1..numChunks : FailuresAt(c) <= 1

\* C27 (checked under UploadLiveSpec): whatever the chunk outcomes, the
\* loop makes at most (number of chunks + MAX_RETRIES + 1) chunk attempts
\* and the run reaches COMPLETE or FAILED.
C27_UploadTerminates ==
    /\ [](Len(log) <= numChunks + 5 + 1)
    /\ <>(ustate \in {"COMPLETE", "FAILED"})

C27_Witness ==
    /\ ustate = "COMPLETE"
    /\ numChunks = 3
    /\ Len(log) = 8
    /\ NumTransient = 5

----------------------------------------------------------------------------
\* Claims about the durations chosen by run() of editor.py

AllFootage == footage # <<>> /\ \A i \in DOMAIN footage : footage[i]

\* C28 (checked under RunSpec): when every section has footage and the
\* audio is probed, each section clip is given max(audio - 7, 5n) / n
\* seconds, at least 5; the timeline of 7 + max(audio - 7, 5n) seconds is
\* not shorter than the audio; and the final video lasts as long as the
\* audio.  Durations are compared multiplied by n.
C28_NarrationNotCut ==
    (rpc \in {"sections", "thumb", "done"} /\ AllFootage /\ probeOk) =>
        LET n == Len(footage)
            m == IF rAudio - 7 >= 5 * n THEN rAudio - 7 ELSE 5 * n
        IN  /\ num_sections = n
            /\ content_dur = m
            /\ content_dur >= 5 * n
            /\ rTimelineN # -1 =>
                   /\ clipsMade = n
                   /\ rTimelineN = 7 * n + n * m
                   /\ rTimelineN >= n * rAudio
                   /\ rFinalN = n * rAudio

C28_Witness ==
    /\ rpc = "done"
    /\ rresult = "returned"
    /\ probeOk
    /\ footage = <<TRUE, TRUE, TRUE>>
    /\ rAudio = 30
    /\ content_dur = 23
    /\ rFinalN = 90

\* a skipped section leaves the timeline shorter than the audio
C28_SkipWitness ==
    /\ rpc = "done"
    /\ rresult = "returned"
    /\ probeOk
    /\ footage = <<TRUE, FALSE>>
    /\ rAudio = 17
    /\ rTimelineN = 24
    /\ rFinalN < 2 * rAudio

----------------------------------------------------------------------------
\* Claims about the word-wrap of generate_thumbnail

RECURSIVE Flatten(_)
\* the words of the lines, line after line
Flatten(ls) == IF ls = <<>> THEN <<>> ELSE Head(ls) \o Flatten(Tail(ls))

\* C29 (checked under ThumbSpec): the lines, joined, are the words of the
\* title in their order; no line is empty; and a line starts with a word
\* only when that word, appended to the line before, would have made it
\* longer than 28 characters.
C29_WrapKeepsWords ==
    tpc = "done" =>
        /\ Flatten(lines) = words
        /\ \A k \in 1..Len(lines) : lines[k] # <<>>
        /\ \A k \in 2..Len(lines) :
               LineLen(Append(lines[k - 1], Head(lines[k]))) > 28

C29_Witness ==
    /\ tpc = "done"
    /\ words = <<14, 13, 15, 1>>
    /\ lines = << <<14, 13>>, <<15, 1>> >>

----------------------------------------------------------------------------
\* Claims about authenticate_youtube (checked under AuthSpec)

\* C30: a service object is returned only for valid credentials: whatever
\* the saved credentials were, the credentials persisted and the ones the
\* service is built with are valid, and credentials that replace the
\* saved ones come from a successful refresh or from the OAuth flow.
C30_ServiceOnlyForValid ==
    /\ persisted.some => (persisted.valid /\ credsFrom \in {"refresh", "flow"})
    /\ (ypc = "done" /\ yresult = "returned") =>
           /\ service.some
           /\ service.valid

====
